---- MODULE Spec2Model ----
(***************************************************************************)
(* Model of p2pws_python: the EventEmitter (build/lib/p2pws_python/emitter) *)
(* and the reconnecting websocket Client (p2pws_python/client.py).          *)
(*                                                                          *)
(* The client is one coroutine, Client._start_async.  Its await points are  *)
(* the values of pc; everything the coroutine does between two await points *)
(* is one atomic step.  A listener is user code: once called it either      *)
(* returns or raises, at a moment of its own choosing.                      *)
(***************************************************************************)
EXTENDS Integers, Sequences, FiniteSets, TLC

VARIABLES
    attrs,       \* the instance's attribute namespace (setattr/hasattr/getattr)
    nReg,        \* history: number of successful on() calls per name
    pc,          \* where _start_async is suspended
    retries,     \* local variable retries of _start_async
    maxRetries,  \* parameter max_retries of _start_async (None: unbounded)
    connected,   \* inside "async with websockets.connect(uri)"
    sessions,    \* history: connection attempts of this invocation
    sleeps,      \* history: backoff sleeps of this invocation
    frameNo,     \* frames received in the current session
    frame,       \* the frame last taken from the connection
    active,      \* the listener call in progress, if any
    flog,        \* history: publications and listener outcomes of `frame`
    slog,        \* history: session-level publications of the current session
    probe,       \* outcome of the last emit() made directly by user code
    cancelAt,    \* history: where the invocation was suspended when cancelled
    faulty,      \* history: some listener raised during this invocation
    everOpen,    \* history: some handshake succeeded during this invocation
    endedBy,     \* history: what the transport did to end the current session
    rejected,    \* history: name of the callable the last on() call refused
    other        \* the task of a second start() call: its own copy of what is per task

vars == << attrs, nReg, pc, retries, maxRetries, connected, sessions, sleeps,
           frameNo, frame, active, flog, slog, probe, cancelAt, faulty, everOpen,
           endedBy, rejected, other >>

----------------------------------------------------------------------------
(* Bounds of the model *)

MaxN == 3          \* largest max_retries tried
MaxFrames == 2     \* cap on frames received in one session
MaxRegs == 2       \* cap on on() calls

----------------------------------------------------------------------------
(* Values *)

None == -1         \* max_retries = None

EarthquakeCode == 551
TsunamiCode == 552
EEWCode == 556

EventNames == {"ready", "rawmessage", "earthquake", "tsunami", "eew", "error", "close"}
\* isReady is a field of Client; it lives in the same namespace as the listeners
AttrNames == EventNames \cup {"isReady"}
\* connection attempts of one invocation are capped when max_retries is None
MaxSessions == MaxN + 1
\* names user code registers listeners under
RegNames == {"ready", "rawmessage", "tsunami", "error", "close", "isReady"}
\* names user code publishes itself
ProbeNames == {"isReady", "tsunami"}

Absent == [kind |-> "absent", v |-> 0]     \* hasattr is False
PyFalse == [kind |-> "bool", v |-> 0]
PyTrue == [kind |-> "bool", v |-> 1]
Coro(k) == [kind |-> "coro", v |-> k]      \* the k-th coroutine function registered under a name

Arg(t, x) == [type |-> t, of |-> x]
NoArg == Arg("none", "-")

NoFrame == [id |-> "-", json |-> FALSE, keys |-> {}, code |-> 0]
Frames ==
    { [id |-> "not-json",       json |-> FALSE, keys |-> {}, code |-> 0],
      [id |-> "no-code",        json |-> TRUE,  keys |-> {}, code |-> 0],
      [id |-> "code-999",       json |-> TRUE,  keys |-> {"code"}, code |-> 999],
      [id |-> "code-551",       json |-> TRUE,  keys |-> {"code", "_id"}, code |-> EarthquakeCode],
      [id |-> "code-552",       json |-> TRUE,
       keys |-> {"code", "_id", "cancelled", "issue"}, code |-> TsunamiCode],
      [id |-> "code-552-cancelled-only", json |-> TRUE,
       keys |-> {"code", "cancelled"}, code |-> TsunamiCode],
      [id |-> "code-556",       json |-> TRUE,  keys |-> {"code", "_id"}, code |-> EEWCode] }

NoCall == [site |-> "-", ev |-> "-", h |-> Absent, arg |-> NoArg]
NoProbe == [ev |-> "-", out |-> "-", h |-> Absent, nreg |-> 0]

Entry(k, site, ev, h, arg, n) ==
    [k |-> k, site |-> site, ev |-> ev, h |-> h, arg |-> arg, nreg |-> n]

St == [attrs |-> attrs, nReg |-> nReg, pc |-> pc, retries |-> retries,
       maxRetries |-> maxRetries, connected |-> connected, sessions |-> sessions,
       sleeps |-> sleeps, frameNo |-> frameNo, frame |-> frame, active |-> active,
       flog |-> flog, slog |-> slog, probe |-> probe, cancelAt |-> cancelAt,
       faulty |-> faulty, everOpen |-> everOpen, endedBy |-> endedBy,
       rejected |-> rejected, other |-> other]

Set(s) ==
    /\ attrs' = s.attrs
    /\ nReg' = s.nReg
    /\ pc' = s.pc
    /\ retries' = s.retries
    /\ maxRetries' = s.maxRetries
    /\ connected' = s.connected
    /\ sessions' = s.sessions
    /\ sleeps' = s.sleeps
    /\ frameNo' = s.frameNo
    /\ frame' = s.frame
    /\ active' = s.active
    /\ flog' = s.flog
    /\ slog' = s.slog
    /\ probe' = s.probe
    /\ cancelAt' = s.cancelAt
    /\ faulty' = s.faulty
    /\ everOpen' = s.everOpen
    /\ endedBy' = s.endedBy
    /\ rejected' = s.rejected
    /\ other' = s.other

----------------------------------------------------------------------------
(* EventEmitter *)

\* on without its test: whatever is passed is stored as the listener
on_NoCheck(s, name, coro) ==
    [s EXCEPT !.attrs[name] = Coro(s.nReg[name] + 1),
              !.nReg[name] = @ + 1,
              !.rejected = IF coro THEN "-" ELSE name]

\* EventEmitter.on(f) for a callable f with f.__name__ = name; coro tells
\* whether asyncio.iscoroutinefunction(f).  If not, TypeError is raised before
\* anything is stored; otherwise setattr(self, f.__name__, f).
on(s, name, coro) ==
    IF ~coro THEN [s EXCEPT !.rejected = name]
    ELSE [s EXCEPT !.attrs[name] = Coro(s.nReg[name] + 1),
                   !.nReg[name] = @ + 1,
                   !.rejected = "-"]

\* What emit does with the attribute it finds under the event's name
Dispatch(a, ev) ==
    IF a[ev].kind = "absent" THEN "silent"                 \* hasattr is False
    ELSE IF a[ev].kind = "bool" /\ a[ev].v = 0 THEN "nolistener"   \* falsy: only printed
    ELSE IF a[ev].kind = "coro" THEN "call"                \* await listener(*args)
    ELSE "TypeError"                                       \* truthy, not callable

FrameSites == {"rawmessage", "typed"}

\* emit with the listener started but not awaited
emit_NoAwait(s, site, ev, arg) ==
    LET out == Dispatch(s.attrs, ev)
        e == Entry("pub", site, ev, s.attrs[ev], arg, s.nReg[ev])
        logged == IF site \in FrameSites
                  THEN [s EXCEPT !.flog = Append(@, e)]
                  ELSE [s EXCEPT !.slog = Append(@, e)]
    IN  [out |-> IF out = "call" THEN "silent" ELSE out,
         st |-> IF out = "call"
                THEN [logged EXCEPT !.active = [site |-> site, ev |-> ev,
                                                h |-> s.attrs[ev], arg |-> arg]]
                ELSE logged]

\* EventEmitter.emit called by the client at `site`.  The publication is logged;
\* when a listener is called the caller is suspended until it completes.
emit(s, site, ev, arg) ==
    LET out == Dispatch(s.attrs, ev)
        e == Entry("pub", site, ev, s.attrs[ev], arg, s.nReg[ev])
        logged == IF site \in FrameSites
                  THEN [s EXCEPT !.flog = Append(@, e)]
                  ELSE [s EXCEPT !.slog = Append(@, e)]
    IN  [out |-> out,
         st |-> IF out = "call"
                THEN [logged EXCEPT !.pc = "handler",
                                    !.active = [site |-> site, ev |-> ev,
                                                h |-> s.attrs[ev], arg |-> arg]]
                ELSE logged]

----------------------------------------------------------------------------
(* Client *)

\* max_retries = None taken as no retry at all
RetryDecision_NoneGivesUp(s) ==
    LET r == s.retries + 1
    IN  IF s.maxRetries = None \/ r >= s.maxRetries
        THEN [s EXCEPT !.retries = r, !.pc = "done"]
        ELSE [s EXCEPT !.retries = r, !.pc = "sleeping", !.sleeps = @ + 1]

\* the give-up test written with > instead of >=
RetryDecision_OffByOne(s) ==
    LET r == s.retries + 1
    IN  IF s.maxRetries # None /\ r > s.maxRetries
        THEN [s EXCEPT !.retries = r, !.pc = "done"]
        ELSE [s EXCEPT !.retries = r, !.pc = "sleeping", !.sleeps = @ + 1]

\* _start_async, lines 118-123: count the failed attempt, give up or back off
RetryDecision(s) ==
    LET r == s.retries + 1
    IN  IF s.maxRetries # None /\ r >= s.maxRetries
        THEN [s EXCEPT !.retries = r, !.pc = "done"]
        ELSE [s EXCEPT !.retries = r, !.pc = "sleeping", !.sleeps = @ + 1]

\* the failure only counted, never published
on_error_NoPublish(s, exc) == RetryDecision(s)

\* Client.__on_error, called from "except Exception" (line 117), outside the try
on_error(s, exc) ==
    LET r == emit(s, "error", "error", Arg("exc", exc))
    IN  IF r.out = "call" THEN r.st
        ELSE IF r.out = "TypeError" THEN [r.st EXCEPT !.pc = "raised"]
        ELSE RetryDecision(r.st)

\* the abnormal close only counted: __on_close is not called
on_close_abnormal_NoEmit(s) == RetryDecision(s)

\* Client.__on_close called from "except ConnectionClosed" (line 114)
on_close_abnormal(s) ==
    LET r == emit([s EXCEPT !.attrs["isReady"] = PyFalse], "close_abnormal", "close", NoArg)
    IN  IF r.out = "call" THEN r.st
        ELSE IF r.out = "TypeError" THEN [r.st EXCEPT !.pc = "raised"]
        ELSE RetryDecision(r.st)

\* the clean close without its break: the loop goes on to the retry decision
on_close_normal_NoBreak(s) ==
    LET r == emit([s EXCEPT !.attrs["isReady"] = PyFalse], "close_normal", "close", NoArg)
    IN  IF r.out = "call" THEN r.st
        ELSE IF r.out = "TypeError" THEN on_error(r.st, "TypeError")
        ELSE RetryDecision(r.st)

\* Client.__on_close called after the connection block (line 110), inside the try
on_close_normal(s) ==
    LET r == emit([s EXCEPT !.attrs["isReady"] = PyFalse], "close_normal", "close", NoArg)
    IN  IF r.out = "call" THEN r.st
        ELSE IF r.out = "TypeError" THEN on_error(r.st, "TypeError")
        ELSE [r.st EXCEPT !.pc = "done"]

\* Tsunami.__init__: data["_id"], data["cancelled"], data["issue"] must exist
TsunamiInit(keys) == {"_id", "cancelled", "issue"} \subseteq keys

\* EarthquakeReports.__init__ and EEW.__init__ (opaque payload decoders)
EarthquakeReportsInit(keys) == TRUE
EEWInit(keys) == TRUE

\* the routing written as an if/elif/else chain whose last branch takes every other code
TypedEvent_ElseBranch(f) ==
    IF ~f.json \/ "code" \notin f.keys THEN "-"
    ELSE IF f.code = EarthquakeCode /\ EarthquakeReportsInit(f.keys) THEN "earthquake"
    ELSE IF f.code = TsunamiCode /\ TsunamiInit(f.keys) THEN "tsunami"
    ELSE IF f.code = TsunamiCode THEN "-"
    ELSE "eew"

\* The typed event of a parsed envelope, "-" when nothing is published
TypedEvent(f) ==
    IF ~f.json \/ "code" \notin f.keys THEN "-"         \* json.loads / data['code'] raises
    ELSE IF f.code = EarthquakeCode /\ EarthquakeReportsInit(f.keys) THEN "earthquake"
    ELSE IF f.code = TsunamiCode /\ TsunamiInit(f.keys) THEN "tsunami"
    ELSE IF f.code = EEWCode /\ EEWInit(f.keys) THEN "eew"
    ELSE "-"

\* the parse error of json.loads not caught: it leaves the session as any exception
on_message_body_NoCatch(s) ==
    LET ev == TypedEvent(s.frame)
    IN  IF ~s.frame.json \/ "code" \notin s.frame.keys
        THEN on_error([s EXCEPT !.connected = FALSE], "DecodeError")
        ELSE IF ev = "-" THEN [s EXCEPT !.pc = "recv"]
        ELSE LET r == emit(s, "typed", ev, Arg(ev, s.frame.id))
             IN  IF r.out = "call" THEN r.st ELSE [r.st EXCEPT !.pc = "recv"]

\* Client.__on_message, lines 145-171: parse, route, publish the typed event.
\* Every exception of this block is caught and the frame is dropped; after a
\* typed publication self.cache.set raises AttributeError (self.cache is never
\* assigned), which the same handler catches.
on_message_body(s) ==
    LET ev == TypedEvent(s.frame)
    IN  IF ev = "-" THEN [s EXCEPT !.pc = "recv"]
        ELSE LET r == emit(s, "typed", ev, Arg(ev, s.frame.id))
             IN  IF r.out = "call" THEN r.st ELSE [r.st EXCEPT !.pc = "recv"]

\* Leaving "async with websockets.connect(uri)" closes the connection
LeaveSession(s) == [s EXCEPT !.connected = FALSE]

\* Client.__on_message, line 144 onwards, for the frame just received
on_message(s) ==
    LET r == emit(s, "rawmessage", "rawmessage", Arg("str", s.frame.id))
    IN  IF r.out = "call" THEN r.st
        ELSE IF r.out = "TypeError" THEN on_error(LeaveSession(r.st), "TypeError")
        ELSE on_message_body(r.st)

\* the counter reset once a connection is established
on_ready_ResetRetries(s) ==
    LET r == emit([s EXCEPT !.attrs["isReady"] = PyTrue, !.retries = 0],
                  "ready", "ready", NoArg)
    IN  IF r.out = "call" THEN r.st
        ELSE IF r.out = "TypeError" THEN on_error(LeaveSession(r.st), "TypeError")
        ELSE [r.st EXCEPT !.pc = "recv"]

\* 'ready' published with the connection as payload
on_ready_WithPayload(s) ==
    LET r == emit([s EXCEPT !.attrs["isReady"] = PyTrue], "ready", "ready", Arg("ws", "-"))
    IN  IF r.out = "call" THEN r.st
        ELSE IF r.out = "TypeError" THEN on_error(LeaveSession(r.st), "TypeError")
        ELSE [r.st EXCEPT !.pc = "recv"]

\* Client.__on_ready, after the handshake
on_ready(s) ==
    LET r == emit([s EXCEPT !.attrs["isReady"] = PyTrue], "ready", "ready", NoArg)
    IN  IF r.out = "call" THEN r.st
        ELSE IF r.out = "TypeError" THEN on_error(LeaveSession(r.st), "TypeError")
        ELSE [r.st EXCEPT !.pc = "recv"]

\* The listener call in progress is over: log it and clear it
Finish(s, how) ==
    LET c == s.active
        e == Entry(how, c.site, c.ev, c.h, c.arg, 0)
        t == [s EXCEPT !.active = NoCall,
                       !.faulty = @ \/ how = "raise"]
    IN  IF c.site \in FrameSites
        THEN [t EXCEPT !.flog = Append(@, e)]
        ELSE [t EXCEPT !.slog = Append(@, e)]

\* The awaited listener returned: the coroutine goes on after the emit
AfterReturn(s) ==
    LET site == s.active.site
        t == Finish(s, "return")
    IN  IF s.pc # "handler" THEN t
        ELSE CASE site = "ready" -> [t EXCEPT !.pc = "recv"]
               [] site = "rawmessage" -> on_message_body(t)
               [] site = "typed" -> [t EXCEPT !.pc = "recv"]
               [] site = "close_normal" -> [t EXCEPT !.pc = "done"]
               [] site = "close_abnormal" -> RetryDecision(t)
               [] site = "error" -> RetryDecision(t)

\* every listener exception caught by the loop and counted as a failed attempt
AfterRaise_AllCaught(s) ==
    LET site == s.active.site
        t == Finish(s, "raise")
    IN  IF s.pc # "handler" THEN t
        ELSE CASE site = "ready" -> on_error(LeaveSession(t), "HandlerError")
               [] site = "rawmessage" -> on_error(LeaveSession(t), "HandlerError")
               [] site = "typed" -> [t EXCEPT !.pc = "recv"]
               [] site = "close_normal" -> on_error(t, "HandlerError")
               [] site = "close_abnormal" -> RetryDecision(t)
               [] site = "error" -> RetryDecision(t)

\* The awaited listener raised an Exception: it propagates out of emit
AfterRaise(s) ==
    LET site == s.active.site
        t == Finish(s, "raise")
    IN  IF s.pc # "handler" THEN t
        ELSE CASE site = "ready" -> on_error(LeaveSession(t), "HandlerError")
               [] site = "rawmessage" -> on_error(LeaveSession(t), "HandlerError")
               [] site = "typed" -> [t EXCEPT !.pc = "recv"]         \* caught at line 168
               [] site = "close_normal" -> on_error(t, "HandlerError")
               [] site = "close_abnormal" -> [t EXCEPT !.pc = "raised"]
               [] site = "error" -> [t EXCEPT !.pc = "raised"]

\* CancelledError caught as an ordinary exception and fed to the retry policy
Cancelled_Caught(s) ==
    on_error([LeaveSession(s) EXCEPT !.active = NoCall,
                  !.cancelAt = IF s.pc = "handler" THEN s.active.site ELSE s.pc],
             "CancelledError")

\* CancelledError thrown into the coroutine at its await: it is a BaseException,
\* so it passes "except Exception" (lines 115 and 168) and leaves _start_async
Cancelled(s) ==
    [LeaveSession(s) EXCEPT !.pc = "cancelled", !.active = NoCall,
                            !.cancelAt = IF s.pc = "handler" THEN s.active.site ELSE s.pc]

----------------------------------------------------------------------------
(* Tasks *)

\* What belongs to one run of _start_async: its position, its local variables,
\* its connection and the histories kept of it.  Listeners and isReady belong
\* to the client and are shared by every task that start() creates.
TaskOf(s) ==
    [pc |-> s.pc, retries |-> s.retries, maxRetries |-> s.maxRetries,
     connected |-> s.connected, sessions |-> s.sessions, sleeps |-> s.sleeps,
     frameNo |-> s.frameNo, frame |-> s.frame, active |-> s.active,
     flog |-> s.flog, slog |-> s.slog, cancelAt |-> s.cancelAt,
     faulty |-> s.faulty, everOpen |-> s.everOpen, endedBy |-> s.endedBy]

\* A task that was never created
NotStarted ==
    [pc |-> "idle", retries |-> 0, maxRetries |-> None, connected |-> FALSE,
     sessions |-> 0, sleeps |-> 0, frameNo |-> 0, frame |-> NoFrame,
     active |-> NoCall, flog |-> << >>, slog |-> << >>, cancelAt |-> "-",
     faulty |-> FALSE, everOpen |-> FALSE, endedBy |-> "-"]

\* The event loop switches to the other task: the two tasks trade places
Switch(s) ==
    LET o == s.other
    IN  [s EXCEPT !.pc = o.pc, !.retries = o.retries, !.maxRetries = o.maxRetries,
                  !.connected = o.connected, !.sessions = o.sessions,
                  !.sleeps = o.sleeps, !.frameNo = o.frameNo, !.frame = o.frame,
                  !.active = o.active, !.flog = o.flog, !.slog = o.slog,
                  !.cancelAt = o.cancelAt, !.faulty = o.faulty,
                  !.everOpen = o.everOpen, !.endedBy = o.endedBy,
                  !.other = TaskOf(s)]

----------------------------------------------------------------------------
(* Actions *)

Init ==
    /\ attrs = [n \in AttrNames |-> IF n = "isReady" THEN PyFalse ELSE Absent]
    /\ nReg = [n \in AttrNames |-> 0]
    /\ pc = "idle"
    /\ retries = 0
    /\ maxRetries = None
    /\ connected = FALSE
    /\ sessions = 0
    /\ sleeps = 0
    /\ frameNo = 0
    /\ frame = NoFrame
    /\ active = NoCall
    /\ flog = << >>
    /\ slog = << >>
    /\ probe = NoProbe
    /\ cancelAt = "-"
    /\ faulty = FALSE
    /\ everOpen = FALSE
    /\ endedBy = "-"
    /\ rejected = "-"
    /\ other = NotStarted

Ended == pc \in {"done", "raised", "cancelled"}
Suspended == pc \in {"connecting", "recv", "handler", "sleeping"}

\* User code passes a new callable named `name` to on(), before start
On(name, coro) ==
    /\ pc = "idle"
    /\ coro => nReg["ready"] + nReg["rawmessage"] + nReg["earthquake"] + nReg["tsunami"]
                 + nReg["eew"] + nReg["error"] + nReg["close"] + nReg["isReady"] < MaxRegs
    /\ Set([on(St, name, coro) EXCEPT !.probe = NoProbe])

\* User code awaits emit(name) itself; the listener it may call is not followed
UserEmit(name) ==
    /\ active = NoCall
    /\ probe = NoProbe
    /\ Set([St EXCEPT !.probe = [ev |-> name, out |-> Dispatch(attrs, name),
                                 h |-> attrs[name], nreg |-> nReg[name]]])

\* _start_async(max_retries = n) runs up to websockets.connect
Start(n) ==
    /\ pc = "idle" \/ Ended
    /\ Set([St EXCEPT !.pc = "connecting", !.retries = 0, !.maxRetries = n,
                      !.sessions = 1, !.sleeps = 0, !.frameNo = 0, !.frame = NoFrame,
                      !.flog = << >>, !.slog = << >>, !.cancelAt = "-",
                      !.faulty = FALSE, !.everOpen = FALSE, !.probe = NoProbe, !.rejected = "-",
                      !.endedBy = "-"])

\* The handshake completes: self.ws = websocket, __on_ready
ConnectOK ==
    /\ pc = "connecting"
    /\ Set(on_ready([St EXCEPT !.connected = TRUE, !.everOpen = TRUE,
                               !.probe = NoProbe, !.rejected = "-"]))

\* websockets.connect raises (not a ConnectionClosed)
ConnectFail ==
    /\ pc = "connecting"
    /\ Set(on_error([St EXCEPT !.probe = NoProbe, !.rejected = "-", !.endedBy = "ConnectError"],
                     "ConnectError"))

\* "async for message in websocket" yields the next frame
RecvFrame(f) ==
    /\ pc = "recv"
    /\ frameNo < MaxFrames
    /\ Set(on_message([St EXCEPT !.frameNo = @ + 1, !.frame = f, !.flog = << >>,
                                 !.probe = NoProbe, !.rejected = "-"]))

\* The remote endpoint closes cleanly: the iteration ends (ConnectionClosedOK)
RecvCloseOK ==
    /\ pc = "recv"
    /\ Set(on_close_normal(LeaveSession([St EXCEPT !.frame = NoFrame, !.flog = << >>,
                                                   !.probe = NoProbe, !.rejected = "-",
                                                   !.endedBy = "clean"])))

\* The connection breaks: ConnectionClosedError leaves the iteration
RecvCloseError ==
    /\ pc = "recv"
    /\ Set(on_close_abnormal(LeaveSession([St EXCEPT !.frame = NoFrame, !.flog = << >>,
                                                     !.probe = NoProbe, !.rejected = "-",
                                                     !.endedBy = "abnormal"])))

\* Any other exception while receiving
RecvError ==
    /\ pc = "recv"
    /\ Set(on_error(LeaveSession([St EXCEPT !.frame = NoFrame, !.flog = << >>,
                                            !.probe = NoProbe, !.rejected = "-",
                                            !.endedBy = "RecvError"]), "RecvError"))

HandlerReturn ==
    /\ active # NoCall
    /\ Set(AfterReturn([St EXCEPT !.probe = NoProbe, !.rejected = "-"]))

HandlerRaise ==
    /\ active # NoCall
    /\ Set(AfterRaise([St EXCEPT !.probe = NoProbe, !.rejected = "-"]))

\* asyncio.sleep(retry_interval) is over: next iteration of the while loop
SleepDone ==
    /\ pc = "sleeping"
    /\ sessions < MaxSessions
    /\ Set([St EXCEPT !.pc = "connecting", !.sessions = @ + 1, !.frameNo = 0,
                      !.frame = NoFrame, !.flog = << >>, !.slog = << >>,
                      !.probe = NoProbe, !.rejected = "-", !.endedBy = "-"])

\* The task is cancelled: CancelledError (a BaseException) is thrown at the
\* await where the coroutine is suspended and no except clause catches it
Cancel ==
    /\ Suspended
    /\ Set(Cancelled([St EXCEPT !.probe = NoProbe, !.rejected = "-"]))

Next ==
    \/ \E n \in RegNames, c \in BOOLEAN : On(n, c)
    \/ \E n \in ProbeNames : UserEmit(n)
    \/ \E n \in {None} \cup (0 .. MaxN) : Start(n)
    \/ ConnectOK
    \/ ConnectFail
    \/ \E f \in Frames : RecvFrame(f)
    \/ RecvCloseOK
    \/ RecvCloseError
    \/ RecvError
    \/ HandlerReturn
    \/ HandlerRaise
    \/ SleepDone
    \/ Cancel

Spec == Init /\ [][Next]_vars

----------------------------------------------------------------------------
(* A second start() while the first task runs.  start() (lines 84-88) creates
   a new task for _start_async() on every call made inside a running loop;
   the second task runs the same code on the same client.  No listener is
   registered here, so every emit returns at once. *)

\* start() called again: asyncio.create_task(self._start_async())
Start2 ==
    /\ Suspended
    /\ other.pc = "idle"
    /\ Set(Switch([Switch(St) EXCEPT !.pc = "connecting", !.sessions = 1]))

ConnectOK2 ==
    /\ other.pc = "connecting"
    /\ Set(Switch(on_ready([Switch(St) EXCEPT !.connected = TRUE, !.everOpen = TRUE])))

ConnectFail2 ==
    /\ other.pc = "connecting"
    /\ Set(Switch(on_error([Switch(St) EXCEPT !.endedBy = "ConnectError"], "ConnectError")))

RecvFrame2(f) ==
    /\ other.pc = "recv"
    /\ other.frameNo < MaxFrames
    /\ Set(Switch(on_message([Switch(St) EXCEPT !.frameNo = @ + 1, !.frame = f,
                                                !.flog = << >>])))

RecvCloseOK2 ==
    /\ other.pc = "recv"
    /\ Set(Switch(on_close_normal(LeaveSession(
               [Switch(St) EXCEPT !.frame = NoFrame, !.flog = << >>, !.endedBy = "clean"]))))

RecvCloseError2 ==
    /\ other.pc = "recv"
    /\ Set(Switch(on_close_abnormal(LeaveSession(
               [Switch(St) EXCEPT !.frame = NoFrame, !.flog = << >>, !.endedBy = "abnormal"]))))

SleepDone2 ==
    /\ other.pc = "sleeping"
    /\ other.sessions < MaxSessions
    /\ Set(Switch([Switch(St) EXCEPT !.pc = "connecting", !.sessions = @ + 1,
                                     !.frameNo = 0, !.frame = NoFrame, !.flog = << >>,
                                     !.slog = << >>, !.endedBy = "-"]))

\* Both tasks created by start(), which passes no max_retries: the default
\* of 10 is never reached within MaxSessions attempts and behaves as None
NextTwo ==
    \/ Start(None)
    \/ ConnectOK
    \/ ConnectFail
    \/ \E f \in Frames : RecvFrame(f)
    \/ RecvCloseOK
    \/ RecvCloseError
    \/ SleepDone
    \/ Start2
    \/ ConnectOK2
    \/ ConnectFail2
    \/ \E f \in Frames : RecvFrame2(f)
    \/ RecvCloseOK2
    \/ RecvCloseError2
    \/ SleepDone2

SpecTwo == Init /\ [][NextTwo]_vars

----------------------------------------------------------------------------
(* Properties *)

\* Every emit on record: the publications of the logs and the user's own emit
Recorded ==
    { flog[i] : i \in { j \in DOMAIN flog : flog[j].k = "pub" } }
      \cup { slog[i] : i \in { j \in DOMAIN slog : slog[j].k = "pub" } }

PubIdx(log, evs) == { i \in DOMAIN log : log[i].k = "pub" /\ log[i].ev \in evs }
TypedNames == {"earthquake", "tsunami", "eew"}
KnownCodes == {EarthquakeCode, TsunamiCode, EEWCode}
EventOfCode(c) ==
    IF c = EarthquakeCode THEN "earthquake" ELSE IF c = TsunamiCode THEN "tsunami" ELSE "eew"

\* The frame is a JSON envelope with its discriminant
WellFormed(f) == f.json /\ "code" \in f.keys
\* The listener of the raw event raised while `frame` was dispatched
RawRaised == \E i \in DOMAIN flog : flog[i].k = "raise" /\ flog[i].ev = "rawmessage"
\* The dispatch of `frame` is over and the next frame is being requested
Dispatched == frame # NoFrame /\ pc = "recv"

\* C1: for every name registered two or more times, an emit of that name calls
\* the most recently registered listener (and so neither raises nor stays
\* silent); no earlier listener of the name is called.
C1_LastRegistrationWins ==
    /\ \A e \in Recorded : e.nreg >= 2 => e.h = Coro(e.nreg)
    /\ (probe # NoProbe /\ probe.nreg >= 2) =>
           (probe.out = "call" /\ probe.h = Coro(probe.nreg))

\* C2: an emit of a name under which no listener was ever registered calls
\* nothing and does not raise.
C2_UnregisteredEmitIsNoop ==
    /\ \A e \in Recorded : e.nreg = 0 => e.h.kind # "coro"
    /\ (probe # NoProbe /\ probe.nreg = 0) => probe.out \in {"silent", "nolistener"}

\* C3: for the frame in hand the raw event is published exactly once, first,
\* with the frame as payload, and at most one typed event follows it; once a
\* well-formed frame with a known code has been dispatched (its raw listener
\* having returned), exactly one typed event, the one of its code, was published.
C3_RawThenOneTyped ==
    frame # NoFrame =>
        /\ Len(flog) >= 1
        /\ PubIdx(flog, {"rawmessage"}) = {1}
        /\ flog[1].arg = Arg("str", frame.id)
        /\ Cardinality(PubIdx(flog, TypedNames)) <= 1
        /\ (Dispatched /\ WellFormed(frame) /\ frame.code \in KnownCodes /\ ~RawRaised) =>
               \E i \in PubIdx(flog, {EventOfCode(frame.code)}) :
                   /\ i > 1
                   /\ PubIdx(flog, TypedNames) = {i}

\* The frame cannot be parsed as an envelope (json.loads or data['code'] raises)
Malformed(f) == f # NoFrame /\ ~WellFormed(f)
UnknownCode(f) == WellFormed(f) /\ f.code \notin KnownCodes
SessionPubs(evs) == PubIdx(slog, evs)

\* What holds of a frame that is dropped after its raw publication: the raw
\* event is the only publication, the session is still connected and either in
\* the raw listener or back at the receive, and no failed attempt was counted
\* (during a session the counter equals the number of earlier sessions).
OnlyRawPublished ==
    /\ PubIdx(flog, EventNames) = {1}
    /\ flog[1].ev = "rawmessage" /\ flog[1].arg = Arg("str", frame.id)
    /\ SessionPubs({"error", "close"}) = {}
    /\ connected
    /\ pc \in {"handler", "recv"}
    /\ pc = "handler" => active.site = "rawmessage"
    /\ retries = sessions - 1

\* C4: while a well-formed frame with an unknown code is the frame in hand
\* (its raw listener not having raised, the invocation not cancelled), only the
\* raw event is published for it, the session stays connected and goes on to
\* the next receive, and the retry counter is unchanged.
C4_UnknownCodeOnlyRaw ==
    (UnknownCode(frame) /\ ~RawRaised /\ pc # "cancelled") => OnlyRawPublished

C4_Witness ==
    /\ frame.id = "code-999" /\ pc = "recv" /\ frameNo = 1
    /\ Len(flog) = 2 /\ flog[2].k = "return"

\* C5 as stated: no publication carries a malformed frame as payload.
C5_NoPublishOfMalformed ==
    Malformed(frame) => \A i \in PubIdx(flog, EventNames) : flog[i].arg.of # frame.id

\* C5 amended: a malformed frame is published once, as the raw event, before it
\* is parsed; nothing else is published for it, and (its raw listener not
\* having raised, the invocation not cancelled) the session continues with the
\* next frame without counting a failed attempt.
C5_MalformedOnlyRaw ==
    (Malformed(frame) /\ ~RawRaised /\ pc # "cancelled") => OnlyRawPublished

C5_Witness ==
    /\ frame.id = "not-json" /\ pc = "recv" /\ frameNo = 1
    /\ Len(flog) = 2 /\ flog[2].k = "return"

\* Every listener called in the log completed before the next entry was made
Sequenced(log) ==
    \A i \in DOMAIN log :
        (log[i].k = "pub" /\ log[i].h.kind = "coro" /\ i < Len(log)) =>
            (log[i + 1].k \in {"return", "raise"} /\ log[i + 1].ev = log[i].ev)
Complete(log) ==
    \A i \in DOMAIN log : (log[i].k = "pub" /\ log[i].h.kind = "coro") => i < Len(log)

\* C6: frames are handled strictly one after the other: a publication is made
\* only after the listener of the previous one completed, the next frame is
\* requested only when every listener called for the frame in hand has
\* completed, and a running listener was called with the frame in hand.
C6_StrictReceiptOrder ==
    /\ Sequenced(flog)
    /\ pc = "recv" => (active = NoCall /\ Complete(flog))
    /\ active # NoCall => pc = "handler"
    /\ active.site \in FrameSites => (frame # NoFrame /\ active.arg.of = frame.id)

C6_Witness ==
    /\ frameNo = 2 /\ pc = "handler" /\ active.site = "typed"
    /\ Len(flog) = 3 /\ flog[2].k = "return"

\* C7: with max_retries = N >= 1, while every connection attempt has failed
\* and no listener has raised: at most N sessions are attempted, one sleep
\* lies between consecutive attempts, and the loop ends only by giving up,
\* after exactly N attempts and N - 1 sleeps, without raising.
C7_ExactlyNAttempts ==
    (maxRetries # None /\ maxRetries >= 1 /\ pc # "idle" /\ ~everOpen /\ ~faulty) =>
        /\ sessions <= maxRetries
        /\ pc \in {"connecting", "handler", "sleeping", "done", "cancelled"}
        /\ pc \in {"connecting", "handler"} => (sleeps = sessions - 1 /\ retries = sessions - 1)
        /\ pc = "sleeping" => (sleeps = sessions /\ retries = sessions /\ sessions < maxRetries)
        /\ pc = "done" => (sessions = maxRetries /\ sleeps = maxRetries - 1
                           /\ retries = maxRetries)

C7_Witness ==
    /\ pc = "done" /\ maxRetries = 3 /\ ~everOpen /\ ~faulty
    /\ sessions = 3 /\ sleeps = 2

\* The current session ended with a clean close by the remote endpoint
CleanClosed == \E i \in SessionPubs({"close"}) : slog[i].site = "close_normal"
CloseRaised == \E i \in DOMAIN slog : slog[i].k = "raise" /\ slog[i].ev = "close"
NoRetry ==
    /\ pc \in {"handler", "done", "cancelled"}
    /\ pc = "handler" => active.site = "close_normal"
    /\ SessionPubs({"error"}) = {}
    /\ retries = sessions - 1
    /\ sleeps = sessions - 1

\* C8 as stated: after a clean close nothing of a retry happens, whatever the
\* listeners do.
C8_CleanCloseNeverRetries == CleanClosed => NoRetry

\* C8 amended: after a clean close whose 'close' listener, if any, does not
\* raise, nothing of a retry happens: no 'error', no increment of the counter,
\* no sleep, no further session, whatever max_retries is.
C8_CleanCloseNoRetryUnlessCloseRaises == (CleanClosed /\ ~CloseRaised) => NoRetry

C8_Witness ==
    /\ CleanClosed /\ pc = "done" /\ maxRetries = None
    /\ Len(slog) = 3 /\ slog[3].k = "return" /\ slog[3].ev = "close"

\* C9: once the invocation has been cancelled in the backoff sleep it has
\* ended, and from then on no connection is attempted and nothing is published.
C9_CancelInBackoffExits ==
    /\ [](cancelAt = "sleeping" => (pc = "cancelled" /\ active = NoCall /\ ~connected))
    /\ [][(cancelAt = "sleeping" /\ cancelAt' = "sleeping") =>
            UNCHANGED << pc, sessions, sleeps, retries, slog, flog, active, connected >>]_vars

C9_Witness == cancelAt = "sleeping" /\ pc = "cancelled" /\ sessions = 2 /\ sleeps = 2

\* The invocation was cancelled while a session was active
CancelledInSession ==
    pc = "cancelled" /\ cancelAt \in {"recv", "ready", "rawmessage", "typed"}

\* C10: an invocation cancelled during an active session has published 'close'
\* for that session by the time it has exited.
C10_CancelInSessionPublishesClose == CancelledInSession => SessionPubs({"close"}) # {}

\* The retry policy has not yet been consulted for the current session
Undecided == retries = sessions - 1 /\ sleeps = sessions - 1

\* C11: a session ended by a connection close, clean or abnormal, has 'close'
\* published exactly once, without payload, from the close path taken; while
\* the 'close' listener runs the retry policy has not yet been consulted.
C11_CloseOncePerClosedSession ==
    endedBy \in {"clean", "abnormal"} =>
        /\ Cardinality(SessionPubs({"close"})) = 1
        /\ \A i \in SessionPubs({"close"}) :
               /\ slog[i].arg = NoArg
               /\ slog[i].site = IF endedBy = "clean" THEN "close_normal" ELSE "close_abnormal"
        /\ (pc = "handler" /\ active.ev = "close") => Undecided

C11_Witness ==
    /\ endedBy = "abnormal" /\ pc = "sleeping"
    /\ Len(slog) = 3 /\ slog[2].ev = "close" /\ slog[3].k = "return"

\* C12: a session ended by an exception of the handshake or of the receive
\* that is no connection close has 'error' published exactly once, with that
\* exception as payload, and 'close' at most once; while the 'error' listener
\* runs the retry policy has not yet been consulted.
C12_ErrorBeforeRetry ==
    endedBy \in {"ConnectError", "RecvError"} =>
        /\ Cardinality(SessionPubs({"error"})) = 1
        /\ \A i \in SessionPubs({"error"}) : slog[i].arg = Arg("exc", endedBy)
        /\ Cardinality(SessionPubs({"close"})) <= 1
        /\ (pc = "handler" /\ active.ev = "error") => Undecided
        /\ pc \in {"sleeping", "done"} => retries = sessions

C12_Witness ==
    /\ endedBy = "RecvError" /\ pc = "handler" /\ active.site = "error"
    /\ active.arg = Arg("exc", "RecvError") /\ frameNo = 1

\* A listener of a message event raised while `frame` was being dispatched
MessageListenerRaised ==
    \E i \in DOMAIN flog : flog[i].k = "raise" /\ flog[i].ev \in TypedNames \cup {"rawmessage"}

\* C13: once a listener of a message event (raw or typed) has raised for the
\* frame in hand, the session is aborted, 'error' is published for it with the
\* listener's exception, and when the retry policy has run the failed attempt
\* is counted (the invocation not being cancelled meanwhile).
C13_MessageListenerExceptionAborts ==
    (MessageListenerRaised /\ pc # "cancelled") =>
        /\ ~connected
        /\ \E i \in SessionPubs({"error"}) : slog[i].arg = Arg("exc", "HandlerError")
        /\ pc \in {"handler", "sleeping", "done", "raised"}
        /\ pc \in {"sleeping", "done"} => retries = sessions

\* C14: in every session 'ready' is published at most once, without payload and
\* as the session's first publication; nothing is published while the handshake
\* is pending, a session whose handshake failed has no 'ready', and a frame is
\* in hand only after 'ready' was published and its listener, if any, returned.
C14_ReadyOnceAfterHandshake ==
    /\ Cardinality(SessionPubs({"ready"})) <= 1
    /\ \A i \in SessionPubs({"ready"}) : i = 1 /\ slog[i].arg = NoArg
    /\ pc = "connecting" => slog = << >>
    /\ endedBy = "ConnectError" => SessionPubs({"ready"}) = {}
    /\ frame # NoFrame =>
           /\ SessionPubs({"ready"}) = {1}
           /\ slog[1].h.kind = "coro" =>
                  (Len(slog) >= 2 /\ slog[2].k = "return" /\ slog[2].ev = "ready")

C14_Witness ==
    /\ frameNo = 1 /\ pc = "recv" /\ frame.id = "code-551" /\ sessions = 2
    /\ Len(slog) = 2 /\ slog[1].ev = "ready" /\ slog[1].h.kind = "coro"

\* C15: an on() call with a callable that is no coroutine function is refused
\* and leaves the attribute namespace and the registrations as they were; an
\* emit made right after it, of a name that has a listener, still calls the
\* listener registered last under that name.
C15_RejectedRegistrationChangesNothing ==
    /\ [][rejected' # "-" => UNCHANGED << attrs, nReg >>]_vars
    /\ []((rejected # "-" /\ probe # NoProbe /\ probe.nreg >= 1) =>
              (probe.out = "call" /\ probe.h = Coro(probe.nreg) /\ probe.h = attrs[probe.ev]))

C15_Witness ==
    /\ rejected = "tsunami" /\ probe.ev = "tsunami" /\ probe.nreg = 1
    /\ probe.out = "call" /\ nReg["tsunami"] = 1

\* C16: at most one connection session of the client is open at any time,
\* start() having been called again while the first task was still running.
C16_AtMostOneSession == ~(connected /\ other.connected)

\* C17: while an invocation runs the retry counter never decreases and grows
\* by at most one in a step; during the k-th session it is k - 1 (so 0 in the
\* first) and in the backoff after it k, whether or not earlier sessions
\* connected and delivered frames; with max_retries = N >= 1 no more than N
\* sessions are run.
C17_CounterNeverReset ==
    /\ [][Suspended => (retries' >= retries /\ retries' <= retries + 1)]_vars
    /\ [](/\ pc \in {"connecting", "recv"} => retries = sessions - 1
          /\ pc = "sleeping" => retries = sessions
          /\ (pc # "idle" /\ maxRetries # None /\ maxRetries >= 1) => sessions <= maxRetries)

C17_Witness ==
    /\ pc = "recv" /\ sessions = 3 /\ retries = 2 /\ maxRetries = 3
    /\ frameNo = 2 /\ SessionPubs({"ready"}) = {1}

\* C18: with max_retries = None the loop never gives up: it has ended without
\* raising only after a clean close (no failed attempt counted for that
\* session) or by cancellation, and, no listener having raised, a session
\* ended by an abnormal close or an error is followed by its publication and
\* the backoff sleep, never by the end of the loop.
C18_UnboundedNeverGivesUp ==
    (maxRetries = None /\ pc # "idle") =>
        /\ pc = "done" => (endedBy = "clean" /\ Undecided)
        /\ pc = "raised" => faulty
        /\ (endedBy \in {"abnormal", "ConnectError", "RecvError"} /\ ~faulty) =>
               /\ pc \in {"handler", "sleeping", "cancelled"}
               /\ pc = "sleeping" => (retries = sessions /\ sleeps = sessions)

C18_Witness ==
    /\ maxRetries = None /\ pc = "sleeping" /\ endedBy = "ConnectError"
    /\ sessions = MaxSessions /\ retries = MaxSessions /\ sleeps = MaxSessions

\* C19: whenever no connection is open (before the handshake, in the backoff
\* sleep, after the loop has stopped or given up; the invocation not having
\* been cancelled) the isReady flag is not true.
C19_ReadyOnlyWhileConnected ==
    (~connected /\ pc # "cancelled") => attrs["isReady"] # PyTrue

RaisedAt(i, sites) == slog[i].k = "raise" /\ slog[i].site \in sites
ErrorListenerPending ==
    pc = "handler" \/ \E i \in DOMAIN slog : RaisedAt(i, {"error"})

\* C20: an exception of the 'ready' listener, or of the 'close' listener after
\* a clean close, is at once published as 'error' with that exception, and,
\* once the 'error' listener (if any) has returned, counted as a failed attempt
\* and followed by the retry decision; an exception of the 'error' listener,
\* or of the 'close' listener after an abnormal close, ends the invocation by
\* raising: the connection is left, nothing is counted, no sleep and no session
\* follow.  The invocation ends by raising in no other way.
C20_ListenerExceptionRouting ==
    /\ \A i \in DOMAIN slog : RaisedAt(i, {"ready", "close_normal"}) =>
           /\ i < Len(slog)
           /\ slog[i + 1].k = "pub" /\ slog[i + 1].ev = "error"
           /\ slog[i + 1].arg = Arg("exc", "HandlerError")
           /\ ~connected
           /\ (~ErrorListenerPending /\ pc # "cancelled") =>
                  /\ retries = sessions
                  /\ pc = IF maxRetries # None /\ retries >= maxRetries
                          THEN "done" ELSE "sleeping"
                  /\ sleeps = IF pc = "sleeping" THEN sessions ELSE sessions - 1
    /\ \A i \in DOMAIN slog : RaisedAt(i, {"error", "close_abnormal"}) =>
           (i = Len(slog) /\ pc = "raised" /\ ~connected /\ Undecided)
    /\ pc = "raised" => (slog # << >> /\ RaisedAt(Len(slog), {"error", "close_abnormal"}))

C20_Witness ==
    /\ pc = "raised" /\ maxRetries = 3 /\ sessions = 1 /\ Len(slog) = 4
    /\ RaisedAt(2, {"ready"}) /\ RaisedAt(4, {"error"})

====
